---- MODULE Spec2Model ----
(***************************************************************************)
(* Model of the Stedin Eklok API client                                    *)
(* (custom_components/stedin_eklok/api.py, class StedinEklokAPI).          *)
(*                                                                         *)
(* Units.  A raw "range" (pressure) is an integer count of 1/Unit, so that *)
(* the non-integer pressures a JSON number can carry are representable:    *)
(* -30 is -30*Unit, -29.96875 is -30*Unit + 1.  All modelled pressures are *)
(* dyadic rationals, which a Python float holds exactly.  An hourly        *)
(* average, round(avg, 1), is an integer count of tenths.  Time is counted *)
(* in hours: an instant is day*24 + hour (UTC).                            *)
(***************************************************************************)
EXTENDS Integers, Sequences, FiniteSets, TLC

VARIABLES
    pc,                 \* position of get_data
    clock,              \* the wall clock, UTC hours; datetime.now() reads it
    tz,                 \* UTC offset of the host's local time zone, hours
    today,              \* local datetime read at line 32
    tomorrow,           \* today + 1 day, line 33
    today_data,         \* value returned by _fetch_day(today)
    tomorrow_data,      \* value returned by _fetch_day(tomorrow)
    today_analysis,     \* line 42
    tomorrow_analysis,  \* line 43
    current_status,     \* line 46
    status_now,         \* now_utc as read at line 176
    result,             \* the dict returned at lines 48-55
    error,              \* the exception that left get_data, or "none"
    requests,           \* the dates requested of the provider, in order
    call,               \* a direct call of one function: its name and arguments
    ret                 \* the value that call returned

vars == <<pc, clock, tz, today, tomorrow, today_data, tomorrow_data,
          today_analysis, tomorrow_analysis, current_status, status_now, result,
          error, requests, call, ret>>

refreshVars == <<pc, clock, tz, today, tomorrow, today_data,
                 tomorrow_data, today_analysis, tomorrow_analysis, current_status,
                 status_now, result, error, requests>>

(***************************************************************************)
(* Program constants                                                       *)
(***************************************************************************)
\* The scale of raw ranges: 1/32, a power of two
Unit == 2 ^ 5
GreenMax == -30
OrangeMax == 30
DefaultRange == 100
NumHours == 24
OneDay == 24
BestLimit == 5
GreenLimit == 10

(***************************************************************************)
(* Bounds of the model                                                     *)
(***************************************************************************)
MaxLen == 3
MaxTicks == 2

(***************************************************************************)
(* Values                                                                  *)
(***************************************************************************)
None == [kind |-> "None"]

Min2(a, b) == IF a <= b THEN a ELSE b

Abs(x) == IF x < 0 THEN -x ELSE x

\* The "date" string of an item.  kind "missing": the key is absent, get
\* returns "" and fromisoformat raises ValueError; "garbage": a string
\* fromisoformat rejects; "naive": an ISO timestamp without offset; "aware":
\* an ISO timestamp with an offset (a trailing Z reads as +00:00).  day and
\* hour are the wall-clock fields as written, off the written offset.
Date(kind, day, hour, off) == [kind |-> kind, day |-> day, hour |-> hour, off |-> off]

\* An item of the provider's data array: a dict with optional keys.
Item(date, hasRange, range, hasColor, color) ==
    [date |-> date, hasRange |-> hasRange, range |-> range,
     hasColor |-> hasColor, color |-> color]

\* datetime.fromisoformat(dt_str.replace("Z", "+00:00")) returns a datetime
\* (it raises ValueError otherwise).
Parses(item) == item.date.kind \in {"naive", "aware"}

\* item.get("range", 100)
RangeOf(item) == IF item.hasRange THEN item.range ELSE DefaultRange * Unit

\* item.get("date"): the string itself, None when the key is absent
DateOf(item) == IF item.date.kind = "missing" THEN None ELSE item.date

(***************************************************************************)
(* _get_color: the band of a range value.  The value is the rational       *)
(* num/den (den > 0), so that the same operator serves a raw range         *)
(* (den = Unit) and an unrounded hourly mean (den = n * Unit).             *)
(***************************************************************************)
\* _get_color with the green boundary excluded (< for <=)
_get_color_strict(num, den) ==
    IF num < GreenMax * den THEN "green"
    ELSE IF num <= OrangeMax * den THEN "orange"
    ELSE "red"

_get_color(num, den) ==
    IF num <= GreenMax * den THEN "green"
    ELSE IF num <= OrangeMax * den THEN "orange"
    ELSE "red"

\* round(num/den, 1) in tenths.  Python rounds the float correctly, halves to
\* even.  For a mean of at most four dyadic pressures the only exact halves
\* are .25 and .75, which a float holds exactly, so rounding the exact
\* rational agrees with rounding the float.
RoundTenth(num, den) ==
    LET q == (10 * num) \div den
        r == 10 * num - q * den
    IN  IF 2 * r < den THEN q
        ELSE IF 2 * r > den THEN q + 1
        ELSE IF q % 2 = 0 THEN q ELSE q + 1

RECURSIVE Sum(_)
Sum(s) == IF s = <<>> THEN 0 ELSE s[1] + Sum(Tail(s))

RECURSIVE MapRange(_)
MapRange(s) == IF s = <<>> THEN <<>> ELSE <<RangeOf(s[1])>> \o MapRange(Tail(s))

\* dt.hour: the hour field of the parsed datetime, as written in the string
HourOf(item) == item.date.hour

\* hourly[hour]["ranges"] after the first loop of _aggregate_hourly
HourRanges(data, hour) ==
    MapRange(SelectSeq(data, LAMBDA item : Parses(item) /\ HourOf(item) = hour))

\* One entry of the result list of _aggregate_hourly.  "range": None is
\* rangeIsNone = TRUE (range is then a placeholder that nothing reads).
HourEntry(data, hour) ==
    LET ranges == HourRanges(data, hour)
    IN  IF Len(ranges) > 0
        THEN [hour |-> hour, rangeIsNone |-> FALSE,
              range |-> RoundTenth(Sum(ranges), Len(ranges) * Unit),
              color |-> _get_color(Sum(ranges), Len(ranges) * Unit)]
        ELSE [hour |-> hour, rangeIsNone |-> TRUE, range |-> 0, color |-> "gray"]

\* _aggregate_hourly looping over range(1, 25)
_aggregate_hourly_shifted(data) == [i \in 1..NumHours |-> HourEntry(data, i)]

_aggregate_hourly(data) == [i \in 1..NumHours |-> HourEntry(data, i - 1)]

(***************************************************************************)
(* _analyze_day                                                            *)
(***************************************************************************)
\* An exception leaving a function
Raised(exc) == [kind |-> "raised", error |-> exc]

\* {"date": d.get("date"), "range": d.get("range", 100)}, line 112
Moment(d) == [date |-> DateOf(d), range |-> RangeOf(d)]

\* moment_info, lines 96-100
MomentInfo(item) ==
    [date |-> DateOf(item), range |-> RangeOf(item),
     color |-> IF item.hasColor THEN item.color ELSE _get_color(RangeOf(item), Unit)]

RECURSIVE MapMoment(_)
MapMoment(s) == IF s = <<>> THEN <<>> ELSE <<Moment(s[1])>> \o MapMoment(Tail(s))

RECURSIVE MapMomentInfo(_)
MapMomentInfo(s) ==
    IF s = <<>> THEN <<>> ELSE <<MomentInfo(s[1])>> \o MapMomentInfo(Tail(s))

\* s[:n]
Take(s, n) == SubSeq(s, 1, Min2(n, Len(s)))

\* x placed into the ascending sequence s behind every element whose range is
\* not greater: what a stable sort does with an element that came later.
InsertByRange(s, x) ==
    LET k == Cardinality({i \in 1..Len(s) : s[i].range <= x.range})
    IN  SubSeq(s, 1, k) \o <<x>> \o SubSeq(s, k + 1, Len(s))

\* sorted(moments, key=lambda x: x["range"]), lines 111-114: stable, ascending
RECURSIVE SortedByRange(_)
SortedByRange(s) ==
    IF s = <<>> THEN <<>>
    ELSE InsertByRange(SortedByRange(SubSeq(s, 1, Len(s) - 1)), s[Len(s)])

\* green_moments after the loop of lines 92-108
GreenMoments(data) ==
    MapMomentInfo(SelectSeq(data, LAMBDA item : RangeOf(item) <= GreenMax * Unit))

\* The bands the three generator expressions of lines 120, 127, 128 test an
\* hourly "range" (tenths) for.
IsGreenHour(h) == h.range <= GreenMax * 10
IsOrangeHour(h) == GreenMax * 10 < h.range /\ h.range <= OrangeMax * 10
IsRedHour(h) == h.range > OrangeMax * 10

\* sum(1 for h in hourly_data if ...), lines 120, 127, 128
GreenHours(hourly) == Cardinality({i \in 1..Len(hourly) : IsGreenHour(hourly[i])})
OrangeHours(hourly) == Cardinality({i \in 1..Len(hourly) : IsOrangeHour(hourly[i])})
RedHours(hourly) == Cardinality({i \in 1..Len(hourly) : IsRedHour(hourly[i])})

RECURSIVE MinOf(_)
MinOf(s) == IF Len(s) = 1 THEN s[1] ELSE Min2(s[1], MinOf(Tail(s)))

RECURSIVE MaxOf(_)
MaxOf(s) ==
    IF Len(s) = 1 THEN s[1]
    ELSE LET m == MaxOf(Tail(s)) IN IF s[1] >= m THEN s[1] ELSE m

\* h.get("range", 100) <= -30 with h["range"] = None: the key is present, get
\* returns None and the comparison raises TypeError (line 120 is evaluated
\* first, for the first hour without data).
ComparesNone(hourly) == \E i \in 1..Len(hourly) : hourly[i].rangeIsNone

\* The dict _analyze_day returns, or the exception that leaves it.  The key
\* average_range (line 123) is left out: nothing below reads it.
_analyze_day(data) ==
    IF data = <<>> THEN [kind |-> "empty"]
    ELSE LET hourly_data == _aggregate_hourly(data)
         IN  IF ComparesNone(hourly_data) THEN Raised("TypeError")
             ELSE [kind |-> "ok",
                   min_range |-> MinOf(MapRange(data)),
                   max_range |-> MaxOf(MapRange(data)),
                   green_count |-> GreenHours(hourly_data),
                   orange_count |-> OrangeHours(hourly_data),
                   red_count |-> RedHours(hourly_data),
                   best_moments |-> Take(SortedByRange(MapMoment(data)), BestLimit),
                   green_moments |-> Take(GreenMoments(data), GreenLimit),
                   hourly_data |-> hourly_data,
                   raw_data_count |-> Len(data)]

(***************************************************************************)
(* _get_current_status                                                     *)
(***************************************************************************)
\* A value _fetch_day can return: None, a list of items, or the other JSON
\* values data["data"] can be (a number, a string).
ListValue(items) == [kind |-> "list", items |-> items]

\* bool(value): None and the empty list are false; the numbers and strings
\* modelled are non-zero and non-empty.
Truthy(value) == IF value.kind = "list" THEN value.items # <<>> ELSE value.kind # "None"

\* The instant an aware datetime denotes, in hours
Instant(item) == item.date.day * 24 + item.date.hour - item.date.off

\* now_utc - item_dt is defined for an aware item_dt only: with a naive one
\* the subtraction raises TypeError, which line 189 catches like ValueError.
HasDiff(item) == item.date.kind = "aware"

\* The loop of lines 180-190 from item i on: the index of closest_item when it
\* ends (0: closest_item is None).
RECURSIVE ScanClosest(_, _, _, _, _)
ScanClosest(items, i, now_utc, min_diff, closest) ==
    IF i > Len(items) THEN closest
    ELSE IF HasDiff(items[i]) /\ Abs(now_utc - Instant(items[i])) < min_diff
         THEN ScanClosest(items, i + 1, now_utc, Abs(now_utc - Instant(items[i])), i)
         ELSE ScanClosest(items, i + 1, now_utc, min_diff, closest)

\* closest_item as an index into today_data, min_diff starting at one day
ClosestIndex(items, now_utc) == ScanClosest(items, 1, now_utc, OneDay, 0)

\* line 195 with the green boundary excluded (< for <=)
StatusName_strict(range_val) ==
    IF range_val < GreenMax * Unit THEN "good"
    ELSE IF range_val <= OrangeMax * Unit THEN "moderate"
    ELSE "bad"

\* line 195
StatusName(range_val) ==
    IF range_val <= GreenMax * Unit THEN "good"
    ELSE IF range_val <= OrangeMax * Unit THEN "moderate"
    ELSE "bad"

\* line 198
IsGoodMoment(range_val) == range_val <= GreenMax * Unit

UnknownStatus ==
    [status |-> "unknown", range |-> DefaultRange * Unit, color |-> "gray",
     is_good_moment |-> FALSE, hasTime |-> FALSE, time |-> None]

\* lines 192-200
StatusOfItem(item) ==
    [status |-> StatusName(RangeOf(item)),
     range |-> RangeOf(item),
     color |-> IF item.hasColor THEN item.color ELSE _get_color(RangeOf(item), Unit),
     is_good_moment |-> IsGoodMoment(RangeOf(item)),
     hasTime |-> TRUE, time |-> DateOf(item)]

\* now_utc is what datetime.now(timezone.utc) returns at line 176
_get_current_status(data, now_utc) ==
    IF ~Truthy(data) THEN UnknownStatus
    ELSE LET k == ClosestIndex(data.items, now_utc)
         IN  IF k # 0 THEN StatusOfItem(data.items[k]) ELSE UnknownStatus

(***************************************************************************)
(* _fetch_day                                                              *)
(***************************************************************************)
\* What the one GET of _fetch_day ends in.  kind "timeout", "connection_error":
\* session.get raises; "http_error": raise_for_status raises on a non-2xx
\* status; "bad_json": response.json() raises on a body that is no JSON (with
\* requests >= 2.27 its JSONDecodeError is a RequestException); "envelope": a
\* JSON object with a "data" key, body its value; "object_without_data": a
\* JSON object without that key; "array": a bare JSON array, body the list;
\* "scalar": any other JSON value.
Response(kind, body) == [kind |-> kind, body |-> body]

\* The value _fetch_day returns for a response
_fetch_day(response) ==
    IF response.kind \in {"timeout", "connection_error", "http_error", "bad_json"}
    THEN None
    ELSE IF response.kind = "envelope" THEN response.body
    ELSE IF response.kind = "array" THEN response.body
    ELSE None

\* date.strftime("%Y-%m-%d") of a datetime counted in hours: its day number
DateParam(datetime) == datetime \div 24

(***************************************************************************)
(* Inputs                                                                  *)
(***************************************************************************)
UtcDate(day, hour) == Date("aware", day, hour, 0)

Items ==
    { Item(UtcDate(0, 1), TRUE, -50 * Unit, FALSE, ""),
      Item(UtcDate(0, 1), TRUE, GreenMax * Unit + 1, TRUE, "green"),
      Item(UtcDate(0, 3), TRUE, OrangeMax * Unit, TRUE, "red"),
      Item(UtcDate(0, 3), TRUE, OrangeMax * Unit + 1, FALSE, ""),
      Item(Date("garbage", 0, 0, 0), TRUE, -100 * Unit, FALSE, ""),
      Item(Date("naive", 0, 2, 0), FALSE, 0, FALSE, ""),
      Item(Date("aware", 0, 1, 2), TRUE, GreenMax * Unit, FALSE, ""),
      Item(Date("missing", 0, 0, 0), TRUE, -50 * Unit, FALSE, "") }

SeqsUpTo(n) == UNION {[1..k -> Items] : k \in 0..n}

\* A day with one sample in every hour, the sample of hour i-1 at range f[i]
FullDay(f) == [i \in 1..NumHours |-> Item(UtcDate(0, i - 1), TRUE, f[i], FALSE, "")]

Alternating == [i \in 1..NumHours |-> IF i % 2 = 1 THEN -50 * Unit ELSE 50 * Unit]

JustAboveGreen == [i \in 1..NumHours |-> GreenMax * Unit + 1]

Descending == [i \in 1..NumHours |-> (12 - i) * 5 * Unit]

FullDays == {FullDay(Alternating), FullDay(JustAboveGreen), FullDay(Descending)}

\* The sample sequences the functions are called with
DataLists == SeqsUpTo(MaxLen) \cup {day \o s : day \in FullDays, s \in SeqsUpTo(1)}

\* The sample sequences a provider response carries
ResponseLists == SeqsUpTo(1) \cup FullDays

Responses ==
    {Response(k, None) :
        k \in {"timeout", "connection_error", "http_error", "bad_json",
               "object_without_data", "scalar"}}
    \cup {Response("envelope", v) : v \in {None, [kind |-> "number"], [kind |-> "string"]}}
    \cup {Response(k, ListValue(l)) : k \in {"envelope", "array"}, l \in ResponseLists}

\* Range values around the two thresholds, and the ends of the scale
Pressures ==
    ((GreenMax - 1) * Unit .. (GreenMax + 1) * Unit)
    \cup ((OrangeMax - 1) * Unit .. (OrangeMax + 1) * Unit)
    \cup {-100 * Unit, 0, 100 * Unit}

\* Instants of "now" (UTC hours) for direct calls of _get_current_status
Nows == {2, 27}

InitClocks == {1, 22, 23}

TimeZones == {0, 2}

Unset == [kind |-> "unset"]

NoResponse == Response("none", None)

NoCall == [fn |-> "none", data |-> None, now |-> 0, p |-> 0, response |-> NoResponse]

Calls ==
    {[NoCall EXCEPT !.fn = "_get_color", !.p = p] : p \in Pressures}
    \cup {[NoCall EXCEPT !.fn = f, !.data = ListValue(l)] :
            f \in {"_aggregate_hourly", "_analyze_day"}, l \in DataLists}
    \cup {[NoCall EXCEPT !.fn = "_get_current_status", !.data = v, !.now = n] :
            v \in {None} \cup {ListValue(l) : l \in DataLists}, n \in Nows}
    \cup {[NoCall EXCEPT !.fn = "_fetch_day", !.response = r] : r \in Responses}

(***************************************************************************)
(* get_data, one action per statement                                      *)
(***************************************************************************)
Init ==
    /\ pc = "start"
    /\ clock \in InitClocks
    /\ tz \in TimeZones
    /\ today = 0
    /\ tomorrow = 0
    /\ today_data = Unset
    /\ tomorrow_data = Unset
    /\ today_analysis = Unset
    /\ tomorrow_analysis = Unset
    /\ current_status = Unset
    /\ status_now = 0
    /\ result = Unset
    /\ error = "none"
    /\ requests = <<>>
    /\ call = NoCall
    /\ ret = Unset

\* Time passes while get_data runs (at most MaxTicks hours)
Tick ==
    /\ pc \notin {"start", "done", "raised"}
    /\ clock + tz - today < MaxTicks
    /\ clock' = clock + 1
    /\ UNCHANGED <<status_now, pc, tz, today, tomorrow, today_data, tomorrow_data, today_analysis,
                   tomorrow_analysis, current_status, result, error, requests, call, ret>>

\* lines 32-33: today = datetime.now() (local, naive); tomorrow = today + 1 day
ReadToday ==
    /\ pc = "start"
    /\ today' = clock + tz
    /\ tomorrow' = clock + tz + OneDay
    /\ pc' = "fetch_today"
    /\ UNCHANGED <<status_now, clock, tz, today_data, tomorrow_data, today_analysis,
                   tomorrow_analysis, current_status, result, error, requests, call, ret>>

\* line 35 with a retry: a fetch that returned None is issued again
FetchToday_retry ==
    /\ pc = "fetch_today"
    /\ \E response \in Responses :
          /\ requests' = Append(requests, DateParam(today))
          /\ today_data' = _fetch_day(response)
          /\ pc' = IF _fetch_day(response) = None THEN "fetch_today" ELSE "fetch_tomorrow"
    /\ UNCHANGED <<status_now, clock, tz, today, tomorrow, tomorrow_data, today_analysis,
                   tomorrow_analysis, current_status, result, error, call, ret>>

\* line 35
FetchToday ==
    /\ pc = "fetch_today"
    /\ \E response \in Responses :
          /\ requests' = Append(requests, DateParam(today))
          /\ today_data' = _fetch_day(response)
    /\ pc' = "fetch_tomorrow"
    /\ UNCHANGED <<status_now, clock, tz, today, tomorrow, tomorrow_data, today_analysis,
                   tomorrow_analysis, current_status, result, error, call, ret>>

\* line 36
FetchTomorrow ==
    /\ pc = "fetch_tomorrow"
    /\ \E response \in Responses :
          /\ requests' = Append(requests, DateParam(tomorrow))
          /\ tomorrow_data' = _fetch_day(response)
    /\ pc' = "log"
    /\ UNCHANGED <<status_now, clock, tz, today, tomorrow, today_data, today_analysis,
                   tomorrow_analysis, current_status, result, error, call, ret>>

\* len(value) of lines 38-39 raises TypeError for a number
LenRaises(value) == Truthy(value) /\ value.kind = "number"

\* lines 38-39: the two debug lines evaluate len() of each truthy value
LogCounts ==
    /\ pc = "log"
    /\ IF LenRaises(today_data) \/ LenRaises(tomorrow_data)
       THEN pc' = "raised" /\ error' = "TypeError"
       ELSE pc' = "analyze_today" /\ error' = error
    /\ UNCHANGED <<status_now, clock, tz, today, tomorrow, today_data, tomorrow_data, today_analysis,
                   tomorrow_analysis, current_status, result, requests, call, ret>>

\* self._analyze_day(value) if value else {}: iterating a string yields
\* strings, and item.get raises AttributeError; a number is not iterable.
AnalyzeValue(value) ==
    IF ~Truthy(value) THEN [kind |-> "empty"]
    ELSE IF value.kind = "string" THEN Raised("AttributeError")
    ELSE IF value.kind = "number" THEN Raised("TypeError")
    ELSE _analyze_day(value.items)

\* line 42
AnalyzeToday ==
    /\ pc = "analyze_today"
    /\ LET analysis == AnalyzeValue(today_data)
       IN  IF analysis.kind = "raised"
           THEN /\ pc' = "raised"
                /\ error' = analysis.error
                /\ today_analysis' = today_analysis
           ELSE /\ pc' = "analyze_tomorrow"
                /\ error' = error
                /\ today_analysis' = analysis
    /\ UNCHANGED <<status_now, clock, tz, today, tomorrow, today_data, tomorrow_data,
                   tomorrow_analysis, current_status, result, requests, call, ret>>

\* line 43
AnalyzeTomorrow ==
    /\ pc = "analyze_tomorrow"
    /\ LET analysis == AnalyzeValue(tomorrow_data)
       IN  IF analysis.kind = "raised"
           THEN /\ pc' = "raised"
                /\ error' = analysis.error
                /\ tomorrow_analysis' = tomorrow_analysis
           ELSE /\ pc' = "status"
                /\ error' = error
                /\ tomorrow_analysis' = analysis
    /\ UNCHANGED <<status_now, clock, tz, today, tomorrow, today_data, tomorrow_data,
                   today_analysis, current_status, result, requests, call, ret>>

\* line 46; _get_current_status reads the clock itself (line 176)
CurrentStatus ==
    /\ pc = "status"
    /\ status_now' = clock
    /\ current_status' = _get_current_status(today_data, clock)
    /\ pc' = "return"
    /\ UNCHANGED <<clock, tz, today, tomorrow, today_data, tomorrow_data, today_analysis,
                   tomorrow_analysis, result, error, requests, call, ret>>

\* lines 48-55 stamping the datetime read at line 32 instead of a new reading
Return_stamps_start ==
    /\ pc = "return"
    /\ result' = [today |-> today_data, tomorrow |-> tomorrow_data,
                  today_analysis |-> today_analysis,
                  tomorrow_analysis |-> tomorrow_analysis,
                  current_status |-> current_status,
                  last_update |-> today]
    /\ pc' = "done"
    /\ UNCHANGED <<status_now, clock, tz, today, tomorrow, today_data, tomorrow_data,
                   today_analysis, tomorrow_analysis, current_status, error, requests,
                   call, ret>>

\* lines 48-55; last_update reads the clock again (local, naive)
Return ==
    /\ pc = "return"
    /\ result' = [today |-> today_data, tomorrow |-> tomorrow_data,
                  today_analysis |-> today_analysis,
                  tomorrow_analysis |-> tomorrow_analysis,
                  current_status |-> current_status,
                  last_update |-> clock + tz]
    /\ pc' = "done"
    /\ UNCHANGED <<status_now, clock, tz, today, tomorrow, today_data, tomorrow_data, today_analysis,
                   tomorrow_analysis, current_status, error, requests, call, ret>>

Next ==
    \/ Tick
    \/ ReadToday
    \/ FetchToday
    \/ FetchTomorrow
    \/ LogCounts
    \/ AnalyzeToday
    \/ AnalyzeTomorrow
    \/ CurrentStatus
    \/ Return

Spec == Init /\ [][Next]_vars

(***************************************************************************)
(* The functions called directly, on inputs drawn from the sets above      *)
(***************************************************************************)
FnInit ==
    /\ call \in Calls
    /\ ret = Unset
    /\ pc = "idle"
    /\ clock = 0
    /\ tz = 0
    /\ today = 0
    /\ tomorrow = 0
    /\ today_data = Unset
    /\ tomorrow_data = Unset
    /\ today_analysis = Unset
    /\ tomorrow_analysis = Unset
    /\ current_status = Unset
    /\ status_now = 0
    /\ result = Unset
    /\ error = "none"
    /\ requests = <<>>

Call_get_color ==
    /\ call.fn = "_get_color"
    /\ ret = Unset
    /\ ret' = [kind |-> "color", color |-> _get_color(call.p, Unit)]
    /\ UNCHANGED <<refreshVars, call>>

Call_aggregate_hourly ==
    /\ call.fn = "_aggregate_hourly"
    /\ ret = Unset
    /\ ret' = [kind |-> "hourly", hourly |-> _aggregate_hourly(call.data.items)]
    /\ UNCHANGED <<refreshVars, call>>

Call_analyze_day ==
    /\ call.fn = "_analyze_day"
    /\ ret = Unset
    /\ ret' = _analyze_day(call.data.items)
    /\ UNCHANGED <<refreshVars, call>>

Call_get_current_status ==
    /\ call.fn = "_get_current_status"
    /\ ret = Unset
    /\ ret' = [kind |-> "status", status |-> _get_current_status(call.data, call.now)]
    /\ UNCHANGED <<refreshVars, call>>

Call_fetch_day ==
    /\ call.fn = "_fetch_day"
    /\ ret = Unset
    /\ ret' = [kind |-> "fetched", value |-> _fetch_day(call.response)]
    /\ UNCHANGED <<refreshVars, call>>

FnNext ==
    \/ Call_fetch_day
    \/ Call_get_color
    \/ Call_aggregate_hourly
    \/ Call_analyze_day
    \/ Call_get_current_status

FnSpec == FnInit /\ [][FnNext]_vars

(***************************************************************************)
(* Properties                                                              *)
(***************************************************************************)
\* A fetch outcome the refresh is specified for: absent, or a (possibly
\* empty) sequence of samples
IsFetchOutcome(value) == value = None \/ value.kind = "list"

NonEmptyList(value) == value.kind = "list" /\ value.items # <<>>

\* C1: whatever the two fetches return (absent, empty or samples, of any
\* content), get_data does not end in a raised error.
C1_RefreshNeverRaises ==
    (IsFetchOutcome(today_data) /\ IsFetchOutcome(tomorrow_data)) => pc # "raised"

\* On days whose samples cover every hour (or that are absent or empty) the
\* refresh does return: the raise of C1 needs an hour without data.
CoversEveryHour(value) ==
    ~Truthy(value) \/
    (value.kind = "list" /\ ~ComparesNone(_aggregate_hourly(value.items)))

RefreshReturnsOnFullDays ==
    (IsFetchOutcome(today_data) /\ IsFetchOutcome(tomorrow_data)
        /\ CoversEveryHour(today_data) /\ CoversEveryHour(tomorrow_data))
    => pc # "raised"

\* C2: when one day's fetch fails and the other returns a non-empty sequence,
\* refresh does not raise and returns a non-empty analysis for the day that
\* has data and an empty one for the day that failed.
C2_DaysDegradeIndependently ==
    /\ (NonEmptyList(today_data) /\ tomorrow_data = None)
        => /\ pc # "raised"
           /\ pc = "done" => /\ result.today_analysis.kind = "ok"
                             /\ result.tomorrow_analysis.kind = "empty"
    /\ (today_data = None /\ NonEmptyList(tomorrow_data))
        => /\ pc # "raised"
           /\ pc = "done" => /\ result.today_analysis.kind = "empty"
                             /\ result.tomorrow_analysis.kind = "ok"

\* The two days do degrade independently when the day with data covers every
\* hour.
DegradeIndependentlyOnFullDays ==
    /\ (NonEmptyList(today_data) /\ CoversEveryHour(today_data) /\ tomorrow_data = None)
        => /\ pc # "raised"
           /\ pc = "done" => /\ result.today_analysis.kind = "ok"
                             /\ result.tomorrow_analysis.kind = "empty"
    /\ (today_data = None /\ NonEmptyList(tomorrow_data) /\ CoversEveryHour(tomorrow_data))
        => /\ pc # "raised"
           /\ pc = "done" => /\ result.today_analysis.kind = "empty"
                             /\ result.tomorrow_analysis.kind = "ok"

DegradedResultReached ==
    /\ pc = "done"
    /\ NonEmptyList(today_data)
    /\ tomorrow_data = None
    /\ result.today_analysis.kind = "ok"
    /\ result.tomorrow_analysis.kind = "empty"

\* A direct call of fn has returned
Returned(fn) == call.fn = fn /\ ret # Unset

\* The hours of the day for which data holds a sample that enters a bucket
HoursWithData(data) ==
    {h \in 0..(NumHours - 1) :
        \E i \in 1..Len(data) : Parses(data[i]) /\ HourOf(data[i]) = h}

\* C3: for a non-empty sample sequence, analyze returns band counts whose sum
\* is the number of hour buckets with at least one contributing sample.
C3_BandCountsPartitionHoursWithData ==
    (Returned("_analyze_day") /\ call.data.items # <<>>)
    => /\ ret.kind = "ok"
       /\ ret.green_count + ret.orange_count + ret.red_count
            = Cardinality(HoursWithData(call.data.items))

\* When analyze does return, the three counts partition the 24 hours.
BandCountsPartitionWhenReturned ==
    (Returned("_analyze_day") /\ ret.kind = "ok")
    => /\ Cardinality(HoursWithData(call.data.items)) = NumHours
       /\ ret.green_count + ret.orange_count + ret.red_count = NumHours

\* The aware samples of a sequence: those whose timestamp denotes an instant
AwareIndexes(items) == {i \in 1..Len(items) : items[i].date.kind = "aware"}

Distance(items, i, now) == Abs(now - Instant(items[i]))

\* The first of the samples nearest to now
IsNearestFirst(items, k, now) ==
    /\ k \in AwareIndexes(items)
    /\ \A i \in AwareIndexes(items) :
          \/ Distance(items, k, now) < Distance(items, i, now)
          \/ (Distance(items, k, now) = Distance(items, i, now) /\ k <= i)

\* C4: when a sample has a timestamp that denotes an instant, resolveCurrent
\* selects the first of the samples nearest to now, however far away it is.
C4_SelectsNearestWhateverDistance ==
    (Returned("_get_current_status") /\ Truthy(call.data)
        /\ AwareIndexes(call.data.items) # {})
    => \E k \in AwareIndexes(call.data.items) :
          /\ IsNearestFirst(call.data.items, k, call.now)
          /\ ret.status.hasTime
          /\ ret.status.time = DateOf(call.data.items[k])
          /\ ret.status.range = RangeOf(call.data.items[k])

\* Within one day of now the nearest sample is selected, the first on a tie;
\* a sample is never selected otherwise.
SelectsNearestWithinOneDay ==
    (Returned("_get_current_status") /\ Truthy(call.data))
    => LET items == call.data.items
           near == {i \in AwareIndexes(items) : Distance(items, i, call.now) < OneDay}
       IN  IF near = {} THEN ret.status = UnknownStatus
           ELSE \E k \in near :
                  /\ IsNearestFirst(items, k, call.now)
                  /\ ret.status.hasTime
                  /\ ret.status.time = DateOf(items[k])
                  /\ ret.status.range = RangeOf(items[k])

\* C5: aggregate returns 24 buckets with hours 0..23 in order; a bucket
\* without a contributing sample has no average and the colour gray, a bucket
\* with contributing samples has a numeric average.
C5_AlwaysTwentyFourBuckets ==
    Returned("_aggregate_hourly")
    => /\ Len(ret.hourly) = 24
       /\ \A i \in 1..24 :
            /\ ret.hourly[i].hour = i - 1
            /\ (i - 1) \notin HoursWithData(call.data.items)
                 => (ret.hourly[i].rangeIsNone /\ ret.hourly[i].color = "gray")
            /\ (i - 1) \in HoursWithData(call.data.items)
                 => (~ret.hourly[i].rangeIsNone
                     /\ ret.hourly[i].color \in {"green", "orange", "red"})

\* An aggregation of a sequence holding an unparseable timestamp, with a
\* filled and an empty bucket
C5_Witness ==
    /\ Returned("_aggregate_hourly")
    /\ \E i \in 1..Len(call.data.items) : ~Parses(call.data.items[i])
    /\ ~ret.hourly[2].rangeIsNone
    /\ ret.hourly[3].rangeIsNone

WellFormed(response) ==
    response.kind \in {"envelope", "array"} /\ response.body.kind = "list"

\* C6: fetch returns absent for every outcome that is not a well-formed
\* envelope or bare array, and the contained sequence for those two.
C6_FetchReturnsSequenceOrAbsent ==
    Returned("_fetch_day")
    => IF WellFormed(call.response)
       THEN ret.value = call.response.body
       ELSE ret.value = None

\* What does hold: fetch never raises, returns the value under "data" as it
\* is for an envelope, a bare array as it is, and absent otherwise.
FetchReturnsDataValueOrAbsent ==
    Returned("_fetch_day")
    => /\ ret.value.kind # "raised"
       /\ WellFormed(call.response) => ret.value = call.response.body
       /\ call.response.kind \notin {"envelope", "array"} => ret.value = None

\* Sample i comes before sample j in ascending pressure, input order on ties
Before(data, i, j) ==
    \/ RangeOf(data[i]) < RangeOf(data[j])
    \/ (RangeOf(data[i]) = RangeOf(data[j]) /\ i < j)

\* The number of samples that come before sample i
Rank(data, i) == Cardinality({j \in 1..Len(data) : Before(data, j, i)})

\* The min(5, n) samples of lowest pressure, projected to {date, range}
LowestFive(data) ==
    [r \in 1..Min2(5, Len(data)) |->
        LET i == CHOOSE i \in 1..Len(data) : Rank(data, i) = r - 1
        IN  [date |-> DateOf(data[i]), range |-> RangeOf(data[i])]]

\* C7: for a non-empty sample sequence, bestMoments is the min(5, n) samples
\* of lowest pressure, ascending, equal pressures in input order.
C7_BestMomentsAreLowestFive ==
    (Returned("_analyze_day") /\ call.data.items # <<>>)
    => /\ ret.kind = "ok"
       /\ ret.best_moments = LowestFive(call.data.items)

\* When analyze does return, best_moments is as C7 says.
BestMomentsWhenReturned ==
    (Returned("_analyze_day") /\ ret.kind = "ok")
    => ret.best_moments = LowestFive(call.data.items)

BoundaryThirtyIsOrange ==
    Returned("_get_color")
    => /\ call.p = 30 * Unit => ret.color = "orange"
       /\ call.p = 30 * Unit + 1 => ret.color = "red"

\* The band a status name stands for
BandOfStatus(status) ==
    IF status = "good" THEN "green"
    ELSE IF status = "moderate" THEN "orange"
    ELSE IF status = "bad" THEN "red"
    ELSE "unknown"

\* Classifier, on a raw range
ExpectedBand(range) ==
    IF range <= -30 * Unit THEN "green"
    ELSE IF range <= 30 * Unit THEN "orange"
    ELSE "red"

\* The status of absent or empty data: unknown, pressure 100, not favorable,
\* no timestamp
ExpectedUnknown ==
    [status |-> "unknown", range |-> 100 * Unit, color |-> "gray",
     is_good_moment |-> FALSE, hasTime |-> FALSE, time |-> None]

\* C9: the band reported for a selected sample is Classifier(pressure),
\* whatever colour tag the sample carries, and isFavorable is
\* (pressure <= -30), so isFavorable holds exactly when the band is green;
\* absent or empty data give the unknown status.
C9_BandIsClassifierWhateverTag ==
    Returned("_get_current_status")
    => IF ~Truthy(call.data) THEN ret.status = ExpectedUnknown
       ELSE ret.status.hasTime
            => /\ BandOfStatus(ret.status.status) = ExpectedBand(ret.status.range)
               /\ ret.status.color = ExpectedBand(ret.status.range)
               /\ ret.status.is_good_moment = (ret.status.range <= -30 * Unit)
               /\ ret.status.is_good_moment <=> ret.status.color = "green"

\* C9 as amended: the status name reported for a selected sample is that of
\* Classifier(pressure) and isFavorable is (pressure <= -30), so isFavorable
\* holds exactly when the status is good; the colour reported is the sample's
\* own colour tag when it carries one, and Classifier(pressure) otherwise;
\* absent or empty data give the unknown status.
C9_StatusIsClassifierColourIsTag ==
    Returned("_get_current_status")
    => IF ~Truthy(call.data) THEN ret.status = ExpectedUnknown
       ELSE ret.status.hasTime
            => \E k \in AwareIndexes(call.data.items) :
                 LET item == call.data.items[k]
                 IN  /\ ret.status.time = DateOf(item)
                     /\ ret.status.range = RangeOf(item)
                     /\ BandOfStatus(ret.status.status) = ExpectedBand(RangeOf(item))
                     /\ ret.status.is_good_moment = (RangeOf(item) <= -30 * Unit)
                     /\ ret.status.is_good_moment <=> ret.status.status = "good"
                     /\ ret.status.color =
                          IF item.hasColor THEN item.color
                          ELSE ExpectedBand(RangeOf(item))

\* A selected sample whose colour tag is not the band of its pressure
C9_Witness ==
    /\ Returned("_get_current_status")
    /\ ret.status.hasTime
    /\ ret.status.color # ExpectedBand(ret.status.range)
    /\ BandOfStatus(ret.status.status) = ExpectedBand(ret.status.range)

\* Classifier, on an average reported in tenths
BandOfTenths(tenths) ==
    IF tenths <= -300 THEN "green"
    ELSE IF tenths <= 300 THEN "orange"
    ELSE "red"

ColourIsBandOfReported(hourly) ==
    \A i \in 1..Len(hourly) :
        ~hourly[i].rangeIsNone => hourly[i].color = BandOfTenths(hourly[i].range)

Coloured(hourly, colour) ==
    Cardinality({i \in 1..Len(hourly) : hourly[i].color = colour})

\* C10: the colour of a bucket with data is Classifier of its reported
\* (rounded) average, so the number of buckets coloured green is
\* greenHourCount, and likewise for orange and red.
C10_ColourIsBandOfRoundedAverage ==
    /\ Returned("_aggregate_hourly") => ColourIsBandOfReported(ret.hourly)
    /\ (Returned("_analyze_day") /\ ret.kind = "ok")
        => /\ ColourIsBandOfReported(ret.hourly_data)
           /\ Coloured(ret.hourly_data, "green") = ret.green_count
           /\ Coloured(ret.hourly_data, "orange") = ret.orange_count
           /\ Coloured(ret.hourly_data, "red") = ret.red_count

\* The counts of a returned analysis are those of the bands of the reported
\* averages.
CountsAreBandsOfReported ==
    (Returned("_analyze_day") /\ ret.kind = "ok")
    => LET bands == [i \in 1..NumHours |-> BandOfTenths(ret.hourly_data[i].range)]
       IN  /\ ret.green_count = Cardinality({i \in 1..NumHours : bands[i] = "green"})
           /\ ret.orange_count = Cardinality({i \in 1..NumHours : bands[i] = "orange"})
           /\ ret.red_count = Cardinality({i \in 1..NumHours : bands[i] = "red"})

\* The UTC hour-of-day of the instant a parseable timestamp denotes; a
\* timestamp without offset is a UTC time
UtcHourOf(item) ==
    IF item.date.kind = "aware" THEN (item.date.hour - item.date.off) % 24
    ELSE item.date.hour

\* The pressures of the samples whose instant lies in UTC hour h
UtcContributions(data, h) ==
    MapRange(SelectSeq(data, LAMBDA item : Parses(item) /\ UtcHourOf(item) = h))

\* Bucket h holds exactly the samples of UTC hour h
BucketHoldsUtcHour(hourly, data, h) ==
    LET ranges == UtcContributions(data, h)
    IN  IF ranges = <<>> THEN hourly[h + 1].rangeIsNone
        ELSE /\ ~hourly[h + 1].rangeIsNone
             /\ hourly[h + 1].range = RoundTenth(Sum(ranges), Len(ranges) * Unit)

\* C11: a sample with a parseable timestamp contributes to exactly the bucket
\* of the UTC hour-of-day of its instant, also when the timestamp is written
\* with a non-zero offset; a sample with an unparseable timestamp contributes
\* to no bucket.
C11_BucketIsUtcHourOfInstant ==
    Returned("_aggregate_hourly")
    => \A h \in 0..23 : BucketHoldsUtcHour(ret.hourly, call.data.items, h)

WrittenInUtc(data) ==
    \A i \in 1..Len(data) : data[i].date.kind = "aware" => data[i].date.off = 0

\* The buckets are those of the UTC hours when every offset written is zero.
BucketIsUtcHourWhenWrittenInUtc ==
    (Returned("_aggregate_hourly") /\ WrittenInUtc(call.data.items))
    => \A h \in 0..23 : BucketHoldsUtcHour(ret.hourly, call.data.items, h)

\* Samples without a parseable timestamp alone fill no bucket.
UnparseableFillNoBucket ==
    (Returned("_aggregate_hourly")
        /\ \A i \in 1..Len(call.data.items) : ~Parses(call.data.items[i]))
    => \A h \in 1..24 : ret.hourly[h].rangeIsNone

\* The positions of get_data from the first analysis on
AfterFetches == {"analyze_today", "analyze_tomorrow", "status", "return", "done"}

\* C12: the analysis of a day and the status resolution start only after
\* that day's fetch has returned, and each of the two dates is requested
\* exactly once per refresh: a failed fetch is not retried.
C12_FetchOnceBeforeAnalysis ==
    /\ pc \in AfterFetches
        => /\ today_data # Unset
           /\ tomorrow_data # Unset
           /\ requests = <<DateParam(today), DateParam(today) + 1>>
    /\ (today_analysis # Unset \/ current_status # Unset) => today_data # Unset
    /\ tomorrow_analysis # Unset => tomorrow_data # Unset
    /\ Len(requests) <= 2
    /\ pc = "fetch_tomorrow" => Len(requests) = 1
    /\ pc = "raised" => (Len(requests) = 2 /\ requests[1] # requests[2])

\* A refresh that returned although today's fetch failed, after two requests
C12_Witness ==
    /\ pc = "done"
    /\ today_data = None
    /\ NonEmptyList(tomorrow_data)
    /\ Len(requests) = 2
    /\ result.today_analysis.kind = "empty"

\* status is what the nearest-sample lookup gives for the instant now: the
\* first of the samples nearest to now if one lies within a day, unknown
\* otherwise
StatusIsNearestTo(data, now, status) ==
    IF ~Truthy(data) THEN status = UnknownStatus
    ELSE LET items == data.items
             near == {i \in AwareIndexes(items) : Distance(items, i, now) < OneDay}
         IN  IF near = {} THEN status = UnknownStatus
             ELSE \E k \in near :
                    /\ IsNearestFirst(items, k, now)
                    /\ status.hasTime
                    /\ status.time = DateOf(items[k])
                    /\ status.range = RangeOf(items[k])

\* C13: every time-dependent part of one refresh comes from the one instant
\* now at which it started (today is the local datetime of that instant): the
\* dates requested are now's date and the next, the nearest-sample lookup
\* measures distances to now, and refreshedAt is now, also when the clock
\* advances during the refresh.
C13_OneInstantPerRefresh ==
    pc = "done"
    => /\ requests = <<DateParam(today), DateParam(today) + 1>>
       /\ status_now = today - tz
       /\ StatusIsNearestTo(today_data, today - tz, result.current_status)
       /\ result.last_update = today

\* C13 as amended: the clock is read three times.  The two dates requested
\* come from the first reading (today's local date and the next date); the
\* nearest-sample lookup measures distances to a second reading, taken when
\* the status is resolved; refreshedAt is a third reading, taken when the
\* result is assembled.  The readings are in that order in time.
C13_ThreeClockReadings ==
    /\ Len(requests) = 2 => requests = <<DateParam(today), DateParam(today) + 1>>
    /\ pc \in {"return", "done"}
        => /\ today - tz <= status_now
           /\ status_now <= clock
           /\ StatusIsNearestTo(today_data, status_now, current_status)
    /\ pc = "done"
        => /\ result.current_status = current_status
           /\ result.last_update = clock + tz
           /\ status_now + tz <= result.last_update

\* A refresh during which the clock advanced twice, past local midnight
C13_Witness ==
    /\ pc = "done"
    /\ today - tz < status_now
    /\ status_now + tz < result.last_update
    /\ DateParam(result.last_update) # DateParam(today)
    /\ requests = <<DateParam(today), DateParam(today) + 1>>

====
